---- MODULE Spec2Model ----
(***************************************************************************)
(* Unicode abbreviation engine of the Lean package for Sublime Text        *)
(* (src/plugin_unicode.py): the abbreviation table with its prefix set,    *)
(* the matcher queries, and the per-view listener that tracks a leader-    *)
(* prefixed span and commits its replacement.                              *)
(*                                                                         *)
(* Text is a sequence of one-character strings; buffer offsets are the     *)
(* 0-based offsets of the Sublime API, so the character at offset i is     *)
(* buf[i+1].  A region is the pair <<a, b>>; None is the empty tuple.      *)
(***************************************************************************)
EXTENDS Integers, Sequences, FiniteSets, TLC

VARIABLES
    abbreviations,          \* _unicode_input.abbreviations : key -> replacement
    prefix_tree,            \* _unicode_input.prefix_tree   : set of prefixes
    buf,                    \* the view's buffer
    cursor,                 \* view.sel()[0].begin(), a single caret
    pending_region,         \* LeanUnicodeListener.pending_region
    pending_abbreviation,   \* LeanUnicodeListener.pending_abbreviation
    eager,                  \* setting unicode_input_eager_replacement
    enabled,                \* setting unicode_input_enabled
    issued,                 \* lean_replace_abbreviation calls made by the last event
    event,                  \* the last event delivered to the listener
    recursion_error,        \* the handlers nested deeper than MaxNest
    load,                   \* load_abbreviations: its inputs and where it stands
    query,                  \* the last matcher call and what it returned
    settings,               \* LSP-lean.sublime-settings as load_settings gives it
    infoview,               \* plugin.py: requests in flight, stored responses, display
    lean                    \* the Lean plugin, its session, its views and its panel

vars == <<abbreviations, prefix_tree, buf, cursor, pending_region,
          pending_abbreviation, eager, enabled, issued, event, recursion_error,
          load, query, settings, infoview, lean>>

----------------------------------------------------------------------------
(* Bounds of the model *)

\* longest buffer the user may type into
MaxBuf == 3

\* deepest nesting of on_modified inside a commit that is followed
MaxNest == 3

\* most characters of filler between a leader and the caret in a buffer
\* that manual conversion is run on
MaxFill == 21

\* cursor positions that goal states are requested for
MaxPos == 2

\* longest key of a loaded table and longest text asked of the matcher
MaxKeyLen == 2

\* views of the window that the Lean plugin serves
MaxViews == 2

\* timers that selection changes may start
MaxTimers == 4

\* runs of the command that toggles the infoview
MaxToggles == 4

----------------------------------------------------------------------------
(* Settings and the table *)

None == <<>>

\* settings.get(SETTING_UNICODE_LEADER, "\\")
Leader == <<"\\">>

\* settings.get(SETTING_UNICODE_ENDER, "\t")
Ender == <<"\t">>

\* plugin_settings.py: the keys of the unicode input settings
SETTING_UNICODE_ENABLED == "unicode_input_enabled"
SETTING_UNICODE_LEADER == "unicode_input_leader"
SETTING_UNICODE_ENDER == "unicode_input_ender"
SETTING_UNICODE_EAGER == "unicode_input_eager_replacement"

\* a settings file: whether it has the "settings" mapping, and that mapping
SettingsFile(present, mapping) == [present |-> present, section |-> mapping]

\* dict.get that ignores the default it is given
get_without_default(mapping, key, default) ==
    IF key \in DOMAIN mapping THEN mapping[key] ELSE FALSE

\* dict.get(key, default)
get(mapping, key, default) ==
    IF key \in DOMAIN mapping THEN mapping[key] ELSE default

\* mapping[key] = value
put(mapping, key, value) ==
    [k \in DOMAIN mapping \cup {key} |-> IF k = key THEN value ELSE mapping[k]]

\* settings.get("settings", {})
section(file) == IF file.present THEN file.section ELSE <<>>

\* a settings file that spells out every default
ShippedSettings ==
    SettingsFile(TRUE, (SETTING_UNICODE_ENABLED :> TRUE) @@ (SETTING_UNICODE_EAGER :> FALSE)
                       @@ (SETTING_UNICODE_LEADER :> Leader) @@ (SETTING_UNICODE_ENDER :> Ender))

\* plugin.py before any request: nothing in flight, stored or displayed
NoInfoview == [inflight |-> {}, goal |-> None, term |-> None, shown |-> None]

\* plugin_settings.py: the keys of the infoview settings
SETTING_DISPLAY_CURRENT_GOALS == "display_current_goals"
SETTING_DISPLAY_EXPECTED_TYPE == "display_expected_type"
SETTING_DISPLAY_MDPOPUP == "display_mdpopup"

\* the views of the window, by view.id()
Views == 1..MaxViews

\* session.config.settings with the three display settings
DisplaySettings(goals, type, mdpopup) ==
    (SETTING_DISPLAY_CURRENT_GOALS :> goals) @@ (SETTING_DISPLAY_EXPECTED_TYPE :> type)
    @@ (SETTING_DISPLAY_MDPOPUP :> mdpopup)

\* a language server session: its ClientStates value and its settings
Session(state, config) == <<[state |-> state, settings |-> config]>>

\* the Lean plugin right after its construction, in a window whose views are
\* saved files: no session yet, no timer (_pending_timeout is not set), no
\* request sent or in flight, nothing stored (_goal_data and _term_goal_data hold no
\* view), nothing displayed and no output panel
NoLean ==
    [session |-> None,
     dirty |-> [v \in Views |-> FALSE],
     file_name |-> [v \in Views |-> TRUE],
     timers |-> <<>>,
     pending_timeout |-> None,
     call |-> None,
     sent |-> <<>>,
     inflight |-> {},
     goal_data |-> [v \in Views |-> None],
     term_goal_data |-> [v \in Views |-> None],
     displayed |-> None,
     panel |-> [exists |-> FALSE, visible |-> FALSE],
     popup |-> FALSE,
     toggles |-> 0]

\* Three arrows of get_default_abbreviations: "u": U+2191, "ud": U+2195 and
\* "d": U+2193.  "u" is a key and a proper prefix of the key "ud"; no key
\* extends "ud" or "d".
DefaultAbbreviations ==
    (<<"u">> :> <<"U2191">>) @@ (<<"u", "d">> :> <<"U2195">>) @@ (<<"d">> :> <<"U2193">>)

\* what the user can type: the leader, the ender and the letters of the keys
Keyboard == {"\\", "\t", "u", "d"}

----------------------------------------------------------------------------
(* Sublime API used by the plugin *)

Min(a, b) == IF a < b THEN a ELSE b
Max(a, b) == IF a > b THEN a ELSE b

\* sublime.Region(a, b)
Region(a, b) == <<a, b>>
begin(r) == Min(r[1], r[2])
end(r) == Max(r[1], r[2])

\* Region.contains that leaves the end of the region out
contains_half_open(r, point) == begin(r) <= point /\ point < end(r)

\* Region.contains(point): both ends inclusive
contains(r, point) == begin(r) <= point /\ point <= end(r)

\* truth value of an Optional[Region]: None and the empty region are false
truthy(r) == r # None /\ end(r) - begin(r) > 0

\* view.substr(Region(a, b)), clipped to the buffer
substr(text, a, b) ==
    SubSeq(text, Max(Min(a, b), 0) + 1, Min(Max(a, b), Len(text)))

\* str.startswith
startswith(s, p) == Len(s) >= Len(p) /\ SubSeq(s, 1, Len(p)) = p

----------------------------------------------------------------------------
(* LeanUnicodeInput *)

\* build_prefix_tree that stops one character short of the key
build_prefix_tree_proper(abbrs) ==
    UNION { { SubSeq(abbrev, 1, i) : i \in 1..(Len(abbrev) - 1) } : abbrev \in DOMAIN abbrs }

\* build_prefix_tree: every non-empty prefix of every key
build_prefix_tree(abbrs) ==
    UNION { { SubSeq(abbrev, 1, i) : i \in 1..Len(abbrev) } : abbrev \in DOMAIN abbrs }

\* is_prefix with the test turned round: some prefix of a key starts text
is_prefix_of_text(text) == \E p \in prefix_tree : startswith(text, p)

\* is_prefix(text): text in self.prefix_tree
is_prefix(text) == text \in prefix_tree

\* is_complete_abbreviation looking for keys that start with text itself
is_complete_no_key_starts_with(text) ==
    IF text \notin DOMAIN abbreviations
    THEN FALSE
    ELSE ~ \E abbrev \in DOMAIN abbreviations : startswith(abbrev, text)

\* is_complete_abbreviation(text): a key, and no key starts with text + "x"
is_complete_abbreviation(text) ==
    IF text \notin DOMAIN abbreviations
    THEN FALSE
    ELSE LET longer == text \o <<"x">>
         IN  ~ \E abbrev \in DOMAIN abbreviations : startswith(abbrev, longer)

\* get_replacement(text): self.abbreviations.get(text), None when absent
get_replacement(text) ==
    IF text \in DOMAIN abbreviations THEN abbreviations[text] ELSE None

\* get_shortest_match scanning from the whole text downwards
RECURSIVE longest_match_from(_, _)
longest_match_from(text, length) ==
    IF length < 1
    THEN None
    ELSE IF SubSeq(text, 1, length) \in DOMAIN abbreviations
         THEN SubSeq(text, 1, length)
         ELSE longest_match_from(text, length - 1)

get_longest_match(text) == longest_match_from(text, Len(text))

\* the loop of get_shortest_match from `length` on
RECURSIVE shortest_match_from(_, _)
shortest_match_from(text, length) ==
    IF length > Len(text)
    THEN None
    ELSE LET prefix == SubSeq(text, 1, length)
         IN  IF prefix \in DOMAIN abbreviations
             THEN prefix
             ELSE shortest_match_from(text, length + 1)

\* get_shortest_match(text)
get_shortest_match(text) == shortest_match_from(text, 1)

----------------------------------------------------------------------------
(* The view and the listener, as seen by one event: a record
   [buf, cursor, region, abbr, issued, err] that the handlers transform *)

\* view.replace(edit, Region(a, b), replacement) and the caret it leaves
view_replace(s, a, b, replacement) ==
    LET lo == Min(Max(Min(a, b), 0), Len(s.buf))
        hi == Min(Max(a, b), Len(s.buf))
    IN  [s EXCEPT
           !.buf = SubSeq(s.buf, 1, lo) \o replacement \o SubSeq(s.buf, hi + 1, Len(s.buf)),
           !.cursor = IF s.cursor < lo THEN s.cursor
                      ELSE IF s.cursor <= hi THEN lo + Len(replacement)
                      ELSE s.cursor - (hi - lo) + Len(replacement)]

\* LeanReplaceAbbreviationCommand.run
LeanReplaceAbbreviationCommand(s, region_begin, region_end, replacement) ==
    view_replace(s, region_begin, region_end, replacement)

RECURSIVE on_modified(_, _)
RECURSIVE update_abbreviation(_, _, _)
RECURSIVE replace_abbreviation(_, _, _)

\* replace_abbreviation that goes on tracking the text it inserted
replace_abbreviation_keep_tracking(s, replacement, fuel) ==
    IF ~truthy(s.region)
    THEN s
    ELSE LET call == [region_begin |-> begin(s.region),
                      region_end   |-> end(s.region),
                      replacement  |-> replacement,
                      content      |-> substr(s.buf, begin(s.region), end(s.region)),
                      abbr         |-> s.abbr]
             s1 == [LeanReplaceAbbreviationCommand(s, begin(s.region), end(s.region), replacement)
                       EXCEPT !.issued = Append(s.issued, call)]
             s2 == IF fuel = 0 THEN [s1 EXCEPT !.err = TRUE] ELSE on_modified(s1, fuel - 1)
         IN  [s2 EXCEPT !.abbr = <<>>,
                        !.region = Region(begin(s.region), begin(s.region) + Len(replacement))]

\* LeanUnicodeListener.replace_abbreviation; the command's edit is delivered
\* to on_modified before pending_region is cleared
replace_abbreviation(s, replacement, fuel) ==
    IF ~truthy(s.region)
    THEN s
    ELSE LET call == [region_begin |-> begin(s.region),
                      region_end   |-> end(s.region),
                      replacement  |-> replacement,
                      content      |-> substr(s.buf, begin(s.region), end(s.region)),
                      abbr         |-> s.abbr]
             s1 == [LeanReplaceAbbreviationCommand(s, begin(s.region), end(s.region), replacement)
                       EXCEPT !.issued = Append(s.issued, call)]
             s2 == IF fuel = 0 THEN [s1 EXCEPT !.err = TRUE] ELSE on_modified(s1, fuel - 1)
         IN  [s2 EXCEPT !.abbr = <<>>, !.region = None]

\* update_abbreviation that, on a non-prefix, first commits the text tracked
\* so far when it is complete: in eager mode only, or whenever always is set
update_abbreviation_salvaging(s, point, fuel, always) ==
    IF ~truthy(s.region)
    THEN s
    ELSE LET abbrev_text == substr(s.buf, begin(s.region) + Len(Leader), point) IN
         IF is_prefix(abbrev_text)
         THEN LET s1 == [s EXCEPT !.abbr = abbrev_text,
                                  !.region = Region(begin(s.region), point)]
                  s2 == IF eager /\ is_complete_abbreviation(abbrev_text)
                           /\ get_replacement(abbrev_text) # <<>>
                        THEN replace_abbreviation(s1, get_replacement(abbrev_text), fuel)
                        ELSE s1
              IN  IF Len(abbrev_text) >= Len(Ender)
                  THEN LET cut == Len(abbrev_text) - Len(Ender)
                           ender_text == SubSeq(abbrev_text, cut + 1, Len(abbrev_text))
                           base == SubSeq(abbrev_text, 1, cut)
                       IN  IF is_complete_abbreviation(base) /\ ender_text = Ender
                              /\ get_replacement(base) # <<>>
                           THEN replace_abbreviation(s2, get_replacement(base), fuel)
                           ELSE s2
                  ELSE s2
         ELSE LET s1 == IF (always \/ eager) /\ is_complete_abbreviation(s.abbr)
                           /\ get_replacement(s.abbr) # <<>>
                        THEN replace_abbreviation([s EXCEPT !.abbr = <<>>],
                                                  get_replacement(s.abbr), fuel)
                        ELSE s
              IN  [s1 EXCEPT !.abbr = <<>>, !.region = None]

update_abbreviation_eager_salvage(s, point, fuel) ==
    update_abbreviation_salvaging(s, point, fuel, FALSE)

update_abbreviation_always_salvage(s, point, fuel) ==
    update_abbreviation_salvaging(s, point, fuel, TRUE)

\* LeanUnicodeListener.update_abbreviation
update_abbreviation(s, point, fuel) ==
    IF ~truthy(s.region)
    THEN s
    ELSE LET abbrev_text == substr(s.buf, begin(s.region) + Len(Leader), point) IN
         IF is_prefix(abbrev_text)
         THEN LET s1 == [s EXCEPT !.abbr = abbrev_text,
                                  !.region = Region(begin(s.region), point)]
                  s2 == IF eager /\ is_complete_abbreviation(abbrev_text)
                           /\ get_replacement(abbrev_text) # <<>>
                        THEN replace_abbreviation(s1, get_replacement(abbrev_text), fuel)
                        ELSE s1
              IN  IF Len(abbrev_text) >= Len(Ender)
                  THEN LET cut == Len(abbrev_text) - Len(Ender)
                           ender_text == SubSeq(abbrev_text, cut + 1, Len(abbrev_text))
                           base == SubSeq(abbrev_text, 1, cut)
                       IN  IF is_complete_abbreviation(base) /\ ender_text = Ender
                              /\ get_replacement(base) # <<>>
                           THEN replace_abbreviation(s2, get_replacement(base), fuel)
                           ELSE s2
                  ELSE s2
         ELSE [s EXCEPT !.abbr = <<>>, !.region = None]

\* on_modified that anchors the new span after the leader
on_modified_anchor_after_leader(s, fuel) ==
    IF ~enabled
    THEN s
    ELSE LET point == s.cursor IN
         IF truthy(s.region) /\ contains(s.region, point - 1)
         THEN update_abbreviation(s, point, fuel)
         ELSE IF point > 0
              THEN LET start == point - Len(Leader) IN
                   IF substr(s.buf, start, point) = Leader
                   THEN [s EXCEPT !.region = Region(point, point), !.abbr = <<>>]
                   ELSE s
              ELSE s

\* LeanUnicodeListener.on_modified
on_modified(s, fuel) ==
    IF ~enabled
    THEN s
    ELSE LET point == s.cursor IN
         IF truthy(s.region) /\ contains(s.region, point - 1)
         THEN update_abbreviation(s, point, fuel)
         ELSE IF point > 0
              THEN LET start == point - Len(Leader) IN
                   IF substr(s.buf, start, point) = Leader
                   THEN [s EXCEPT !.region = Region(start, point), !.abbr = <<>>]
                   ELSE s
              ELSE s

\* on_selection_modified that drops the span without trying to replace it
on_selection_modified_discard(s, fuel) ==
    IF truthy(s.region)
    THEN LET point == s.cursor IN
         IF ~contains(s.region, point)
         THEN [s EXCEPT !.abbr = <<>>, !.region = None]
         ELSE s
    ELSE s

\* on_selection_modified that replaces with whatever the lookup gives
on_selection_modified_unchecked(s, fuel) ==
    IF truthy(s.region)
    THEN LET point == s.cursor IN
         IF ~contains(s.region, point)
         THEN LET s1 == replace_abbreviation(s, get_replacement(s.abbr), fuel)
              IN  [s1 EXCEPT !.abbr = <<>>, !.region = None]
         ELSE s
    ELSE s

\* LeanUnicodeListener.on_selection_modified
on_selection_modified(s, fuel) ==
    IF truthy(s.region)
    THEN LET point == s.cursor IN
         IF ~contains(s.region, point)
         THEN LET s1 == IF s.abbr # <<>> /\ get_replacement(s.abbr) # <<>>
                        THEN replace_abbreviation(s, get_replacement(s.abbr), fuel)
                        ELSE s
              IN  [s1 EXCEPT !.abbr = <<>>, !.region = None]
         ELSE s
    ELSE s

----------------------------------------------------------------------------
(* Events *)

\* "Look back max 20 chars"
LookBack == 20

\* view.line(point).begin(): the offset after the last newline before point
line_begin(text, point) ==
    LET newlines == { i \in 1..Min(point, Len(text)) : text[i] = "\n" }
    IN  IF newlines = {} THEN 0 ELSE CHOOSE i \in newlines : \A j \in newlines : j <= i

\* str.rfind: the last offset at which sub occurs in text, -1 when it does not
rfind(text, sub) ==
    LET hits == { i \in 0..(Len(text) - Len(sub)) : SubSeq(text, i + 1, i + Len(sub)) = sub }
    IN  IF hits = {} THEN -1 ELSE CHOOSE i \in hits : \A j \in hits : j <= i

\* the search that goes back to the start of the line however far that is
search_start_whole_line(text, point) == line_begin(text, point)

\* search_start = max(line_start, point - 20)
search_start(text, point) == Max(line_begin(text, point), point - LookBack)

\* LeanConvertAbbreviationCommand.run, and the on_modified that its edit
\* delivers to the listener
LeanConvertAbbreviationCommand(s, fuel) ==
    IF ~enabled
    THEN s
    ELSE LET point == s.cursor
             start == search_start(s.buf, point)
             text_before == substr(s.buf, start, point)
             leader_pos == rfind(text_before, Leader)
         IN  IF leader_pos = -1
             THEN s
             ELSE LET abbrev_start == start + leader_pos + Len(Leader)
                      abbrev_text == substr(s.buf, abbrev_start, point)
                      match == get_shortest_match(abbrev_text)
                  IN  IF match # None /\ get_replacement(match) # <<>>
                      THEN LET replace_end == abbrev_start + Len(match)
                           IN  on_modified(view_replace(s, start + leader_pos, replace_end,
                                                        get_replacement(match)), fuel)
                      ELSE s

\* the view and listener at the start of an event
View == [buf |-> buf, cursor |-> cursor, region |-> pending_region,
         abbr |-> pending_abbreviation, issued |-> <<>>, err |-> FALSE]

\* the state an event leaves behind
Deliver(s, ev) ==
    /\ buf' = s.buf
    /\ cursor' = s.cursor
    /\ pending_region' = s.region
    /\ pending_abbreviation' = s.abbr
    /\ issued' = s.issued
    /\ recursion_error' = (recursion_error \/ s.err)
    /\ event' = ev
    /\ UNCHANGED <<abbreviations, prefix_tree, eager, enabled, load, query, settings,
                 infoview, lean>>

\* an event as the listener meets it: its kind, the character typed or the
\* position the caret is put at, and the listener's state when it arrives
Ev(kind, ch, pos) ==
    [kind |-> kind, ch |-> ch, pos |-> pos,
     region |-> pending_region, abbr |-> pending_abbreviation]

\* the user types the character c at the caret
TypeChar(c) ==
    /\ Len(buf) < MaxBuf
    /\ LET typed == [View EXCEPT
                       !.buf = SubSeq(buf, 1, cursor) \o <<c>> \o SubSeq(buf, cursor + 1, Len(buf)),
                       !.cursor = cursor + 1]
       IN  Deliver(on_modified(typed, MaxNest), Ev("type", c, 0))

\* the user deletes the character before the caret
Backspace ==
    /\ cursor > 0
    /\ LET erased == [View EXCEPT
                        !.buf = SubSeq(buf, 1, cursor - 1) \o SubSeq(buf, cursor + 1, Len(buf)),
                        !.cursor = cursor - 1]
       IN  Deliver(on_modified(erased, MaxNest), Ev("backspace", "", 0))

\* the user deletes the character after the caret
ForwardDelete ==
    /\ cursor < Len(buf)
    /\ LET erased == [View EXCEPT
                        !.buf = SubSeq(buf, 1, cursor) \o SubSeq(buf, cursor + 2, Len(buf))]
       IN  Deliver(on_modified(erased, MaxNest), Ev("delete", "", 0))

\* the caret is placed at p
MoveCursor(p) ==
    LET moved == [View EXCEPT !.cursor = p]
    IN  Deliver(on_selection_modified(moved, MaxNest), Ev("move", "", p))

\* the user switches eager replacement on or off
SetEager ==
    /\ settings' = [settings EXCEPT !.section = put(settings.section, SETTING_UNICODE_EAGER, ~eager)]
    /\ eager' = get(section(settings'), SETTING_UNICODE_EAGER, FALSE)
    /\ issued' = <<>>
    /\ event' = Ev("setting", "", 0)
    /\ UNCHANGED <<abbreviations, prefix_tree, buf, cursor, pending_region,
                   pending_abbreviation, enabled, recursion_error, load, query, infoview, lean>>

\* load_abbreviations has returned: the file it read and the custom setting
Loaded(file, custom) ==
    [pc |-> "done", file |-> file, custom |-> custom, todo |-> {}]

\* no matcher call was made since the table was loaded
NoQuery == [fn |-> "none", text |-> <<>>, result |-> FALSE]

Init ==
    /\ abbreviations = DefaultAbbreviations
    /\ prefix_tree = build_prefix_tree(DefaultAbbreviations)
    /\ buf = <<>>
    /\ cursor = 0
    /\ pending_region = None
    /\ pending_abbreviation = <<>>
    /\ eager = FALSE
    /\ enabled = TRUE
    /\ issued = <<>>
    /\ event = Ev("init", "", 0)
    /\ recursion_error = FALSE
    /\ load = Loaded([found |-> FALSE, json |-> <<>>], <<>>)
    /\ query = NoQuery
    /\ settings = ShippedSettings
    /\ infoview = NoInfoview
    /\ lean = NoLean

Next ==
    \/ \E c \in Keyboard : TypeChar(c)
    \/ Backspace
    \/ ForwardDelete
    \/ \E p \in 0..Len(buf) : MoveCursor(p)
    \/ SetEager

Spec == Init /\ [][Next]_vars

----------------------------------------------------------------------------
(* Loading the table, and the matcher asked directly *)

\* characters of the keys and of the texts; "x" is the character that
\* is_complete_abbreviation appends
Alphabet == {"d", "x"}

\* the texts the matcher is asked about, the empty text included
Texts == UNION { [1..n -> Alphabet] : n \in 0..MaxKeyLen }

\* what abbreviations.json may hold: at most two non-empty keys
FileTables ==
    { [k \in ks |-> <<"U2193">>] :
        ks \in { s \in SUBSET (Texts \ {<<>>}) : Cardinality(s) <= 2 } }

\* the file is missing, or it is there and parses to a table
Files ==
    {[found |-> FALSE, json |-> <<>>]}
        \cup { [found |-> TRUE, json |-> table] : table \in FileTables }

\* the custom translations of the settings: none, or one entry
Customs ==
    { [k \in ks |-> <<"U2191">>] :
        ks \in { s \in SUBSET (Texts \ {<<>>}) : Cardinality(s) <= 1 } }

\* dict.update that keeps the entries already there
update_keeping_defaults(abbrs, custom) ==
    [k \in DOMAIN abbrs \cup DOMAIN custom |->
        IF k \in DOMAIN abbrs THEN abbrs[k] ELSE custom[k]]

\* self.abbreviations.update(custom)
update(abbrs, custom) ==
    [k \in DOMAIN abbrs \cup DOMAIN custom |->
        IF k \in DOMAIN custom THEN custom[k] ELSE abbrs[k]]

\* the table load_abbreviations leaves in self.abbreviations
load_abbreviations(file, custom) ==
    LET loaded == IF file.found THEN file.json ELSE DefaultAbbreviations
    IN  IF DOMAIN custom # {} THEN update(loaded, custom) ELSE loaded

\* the record of a matcher call
Answer(fn, text, result) == [fn |-> fn, text |-> text, result |-> result]

\* a handler asks _unicode_input.is_prefix(text)
AskIsPrefix(text) ==
    /\ query' = Answer("is_prefix", text, is_prefix(text))
    /\ UNCHANGED <<abbreviations, prefix_tree, buf, cursor, pending_region,
                   pending_abbreviation, eager, enabled, issued, event,
                   recursion_error, load,
                   settings, infoview, lean>>

\* a handler asks _unicode_input.is_complete_abbreviation(text)
AskIsComplete(text) ==
    /\ query' = Answer("is_complete_abbreviation", text, is_complete_abbreviation(text))
    /\ UNCHANGED <<abbreviations, prefix_tree, buf, cursor, pending_region,
                   pending_abbreviation, eager, enabled, issued, event,
                   recursion_error, load,
                   settings, infoview, lean>>

\* a handler asks _unicode_input.get_replacement(text)
AskReplacement(text) ==
    /\ query' = Answer("get_replacement", text, get_replacement(text))
    /\ UNCHANGED <<abbreviations, prefix_tree, buf, cursor, pending_region,
                   pending_abbreviation, eager, enabled, issued, event,
                   recursion_error, load,
                   settings, infoview, lean>>

\* lean_convert_abbreviation asks _unicode_input.get_shortest_match(text)
AskShortestMatch(text) ==
    /\ query' = Answer("get_shortest_match", text, get_shortest_match(text))
    /\ UNCHANGED <<abbreviations, prefix_tree, buf, cursor, pending_region,
                   pending_abbreviation, eager, enabled, issued, event,
                   recursion_error, load,
                   settings, infoview, lean>>

\* plugin_loaded: the table is loaded again, the custom setting being custom
PluginLoaded(custom) ==
    /\ load.pc = "done"
    /\ abbreviations' = load_abbreviations(load.file, custom)
    /\ prefix_tree' = build_prefix_tree(abbreviations')
    /\ load' = Loaded(load.file, custom)
    /\ query' = NoQuery
    /\ UNCHANGED <<buf, cursor, pending_region, pending_abbreviation, eager,
                   enabled, issued, event, recursion_error,
                   settings, infoview, lean>>

\* LeanUnicodeInput() with some abbreviations.json and some custom setting
InitMatcher ==
    /\ \E file \in Files, custom \in Customs :
         /\ abbreviations = load_abbreviations(file, custom)
         /\ load = Loaded(file, custom)
    /\ prefix_tree = build_prefix_tree(abbreviations)
    /\ buf = <<>>
    /\ cursor = 0
    /\ pending_region = None
    /\ pending_abbreviation = <<>>
    /\ eager = FALSE
    /\ enabled = TRUE
    /\ issued = <<>>
    /\ event = Ev("init", "", 0)
    /\ recursion_error = FALSE
    /\ query = NoQuery
    /\ settings = ShippedSettings
    /\ infoview = NoInfoview
    /\ lean = NoLean

NextMatcher ==
    \/ \E custom \in Customs : PluginLoaded(custom)
    \/ \E text \in Texts : AskIsPrefix(text)
    \/ \E text \in Texts : AskIsComplete(text)
    \/ \E text \in Texts : AskReplacement(text)
    \/ \E text \in Texts : AskShortestMatch(text)

SpecMatcher == InitMatcher /\ [][NextMatcher]_vars

----------------------------------------------------------------------------
(* load_abbreviations statement by statement, with matcher calls between
   its statements *)

\* plugin_loaded enters load_abbreviations, the custom setting being custom;
\* lines 36-42: self.abbreviations is the file's table or the fallback
LoadFile(custom) ==
    /\ load.pc = "done"
    /\ abbreviations' = IF load.file.found THEN load.file.json ELSE DefaultAbbreviations
    /\ load' = [load EXCEPT !.pc = "custom", !.custom = custom]
    /\ query' = NoQuery
    /\ UNCHANGED <<prefix_tree, buf, cursor, pending_region, pending_abbreviation,
                   eager, enabled, issued, event, recursion_error,
                   settings, infoview, lean>>

\* lines 44-47: if custom: self.abbreviations.update(custom)
MergeCustom ==
    /\ load.pc = "custom"
    /\ abbreviations' = IF DOMAIN load.custom # {}
                        THEN update(abbreviations, load.custom)
                        ELSE abbreviations
    /\ load' = [load EXCEPT !.pc = "build"]
    /\ query' = NoQuery
    /\ UNCHANGED <<prefix_tree, buf, cursor, pending_region, pending_abbreviation,
                   eager, enabled, issued, event, recursion_error,
                   settings, infoview, lean>>

\* build_prefix_tree, line 56: self.prefix_tree = set()
ResetPrefixTree ==
    /\ load.pc = "build"
    /\ prefix_tree' = {}
    /\ load' = [load EXCEPT !.pc = IF DOMAIN abbreviations = {} THEN "done" ELSE "keys",
                            !.todo = DOMAIN abbreviations]
    /\ query' = NoQuery
    /\ UNCHANGED <<abbreviations, buf, cursor, pending_region, pending_abbreviation,
                   eager, enabled, issued, event, recursion_error,
                   settings, infoview, lean>>

\* build_prefix_tree, lines 57-59: the prefixes of the next key are added;
\* after the last key load_abbreviations returns
AddPrefixes(abbrev) ==
    /\ load.pc = "keys"
    /\ abbrev \in load.todo
    /\ prefix_tree' = prefix_tree \cup { SubSeq(abbrev, 1, i) : i \in 1..Len(abbrev) }
    /\ load' = [load EXCEPT !.pc = IF load.todo = {abbrev} THEN "done" ELSE "keys",
                            !.todo = load.todo \ {abbrev}]
    /\ query' = NoQuery
    /\ UNCHANGED <<abbreviations, buf, cursor, pending_region, pending_abbreviation,
                   eager, enabled, issued, event, recursion_error,
                   settings, infoview, lean>>

NextReload ==
    \/ \E custom \in Customs : LoadFile(custom)
    \/ MergeCustom
    \/ ResetPrefixTree
    \/ \E abbrev \in Texts : AddPrefixes(abbrev)
    \/ \E text \in Texts : AskIsPrefix(text)
    \/ \E text \in Texts : AskIsComplete(text)
    \/ \E text \in Texts : AskReplacement(text)

SpecReload == InitMatcher /\ [][NextReload]_vars

----------------------------------------------------------------------------
(* Manual conversion *)

\* the user runs lean_convert_abbreviation
Convert ==
    Deliver(LeanConvertAbbreviationCommand(View, MaxNest), Ev("convert", "", cursor))

\* typing with manual conversion at hand
NextConvert ==
    \/ \E c \in Keyboard : TypeChar(c)
    \/ Backspace
    \/ ForwardDelete
    \/ \E p \in 0..Len(buf) : MoveCursor(p)
    \/ SetEager
    \/ Convert

SpecConvert == Init /\ [][NextConvert]_vars

----------------------------------------------------------------------------
(* Manual conversion in a buffer that was there when the view opened *)

\* n characters "d"
Fill(n) == [i \in 1..n |-> "d"]

\* lines of text with a leader up to MaxFill characters before the end:
\* alone or after an earlier "\u", on the caret's line or on the line above
WindowBuffers ==
    { head \o Leader \o sep \o Fill(n) :
        head \in {<<>>, <<"\\", "u">>}, sep \in {<<>>, <<"\n">>}, n \in 0..MaxFill }

InitWindow ==
    /\ buf \in WindowBuffers
    /\ cursor \in 0..Len(buf)
    /\ abbreviations = DefaultAbbreviations
    /\ prefix_tree = build_prefix_tree(DefaultAbbreviations)
    /\ pending_region = None
    /\ pending_abbreviation = <<>>
    /\ eager = FALSE
    /\ enabled = TRUE
    /\ issued = <<>>
    /\ event = Ev("init", "", 0)
    /\ recursion_error = FALSE
    /\ load = Loaded([found |-> FALSE, json |-> <<>>], <<>>)
    /\ query = NoQuery
    /\ settings = ShippedSettings
    /\ infoview = NoInfoview
    /\ lean = NoLean

NextWindow ==
    \/ Convert
    \/ \E p \in 0..Len(buf) : MoveCursor(p)

SpecWindow == InitWindow /\ [][NextWindow]_vars

----------------------------------------------------------------------------
(* Unicode input switched off and on while the user types *)

\* the user switches unicode input off or on
SetEnabled ==
    /\ settings' = [settings EXCEPT !.section = put(settings.section, SETTING_UNICODE_ENABLED, ~enabled)]
    /\ enabled' = get(section(settings'), SETTING_UNICODE_ENABLED, TRUE)
    /\ issued' = <<>>
    /\ event' = Ev("setting", "", 0)
    /\ UNCHANGED <<abbreviations, prefix_tree, buf, cursor, pending_region,
                   pending_abbreviation, eager, recursion_error, load, query, infoview, lean>>

NextEnabled ==
    \/ \E c \in Keyboard : TypeChar(c)
    \/ Backspace
    \/ ForwardDelete
    \/ \E p \in 0..Len(buf) : MoveCursor(p)
    \/ SetEnabled

SpecEnabled == Init /\ [][NextEnabled]_vars

----------------------------------------------------------------------------
(* The infoview of plugin.py for one view, with display_current_goals,
   display_expected_type and display_nogoals switched on.  A response is
   known by the position it was requested for and by whether it holds any
   goal (or expected type); an absent response is the empty tuple and a
   stored one a tuple of one record. *)

\* the variables of the unicode input, which the infoview leaves alone
unicode_vars ==
    <<abbreviations, prefix_tree, buf, cursor, pending_region, pending_abbreviation,
      eager, enabled, issued, event, recursion_error, load, query, settings>>

\* Lean._display_combined_info: what is handed to the panel or the popup
display_combined_info(goal_data, term_goal_data) ==
    LET has_goals == goal_data # None /\ goal_data[1].filled
        has_types == term_goal_data # None /\ term_goal_data[1].filled
    IN  IF ~has_goals /\ ~has_types
        THEN <<[goal |-> None, term |-> None]>>
        ELSE <<[goal |-> goal_data, term |-> term_goal_data]>>

\* Lean.request_goal_state for a saved file of a ready session: both
\* requests are sent for the position
RequestGoalState(pos) ==
    /\ infoview' = [infoview EXCEPT
                      !.inflight = @ \cup {[kind |-> "goal", pos |-> pos],
                                           [kind |-> "term", pos |-> pos]}]
    /\ UNCHANGED <<unicode_vars, lean>>

\* Lean.on_goal_response: the server answers a plainGoal request
GoalResponse(request, error, filled) ==
    /\ request \in infoview.inflight
    /\ request.kind = "goal"
    /\ infoview' =
         IF error
         THEN [infoview EXCEPT !.inflight = @ \ {request}]
         ELSE LET response == <<[pos |-> request.pos, filled |-> filled]>>
              IN  [infoview EXCEPT
                     !.inflight = @ \ {request},
                     !.goal = response,
                     !.shown = display_combined_info(response, infoview.term)]
    /\ UNCHANGED <<unicode_vars, lean>>

\* Lean.on_term_goal_response: the server answers a plainTermGoal request
TermGoalResponse(request, error, filled) ==
    /\ request \in infoview.inflight
    /\ request.kind = "term"
    /\ infoview' =
         IF error
         THEN [infoview EXCEPT !.inflight = @ \ {request}]
         ELSE LET response == <<[pos |-> request.pos, filled |-> filled]>>
              IN  [infoview EXCEPT
                     !.inflight = @ \ {request},
                     !.term = response,
                     !.shown = display_combined_info(infoview.goal, response)]
    /\ UNCHANGED <<unicode_vars, lean>>

NextInfoview ==
    \/ \E pos \in 1..MaxPos : RequestGoalState(pos)
    \/ \E request \in infoview.inflight, error \in BOOLEAN, filled \in BOOLEAN :
         GoalResponse(request, error, filled)
    \/ \E request \in infoview.inflight, error \in BOOLEAN, filled \in BOOLEAN :
         TermGoalResponse(request, error, filled)

SpecInfoview == Init /\ [][NextInfoview]_vars

----------------------------------------------------------------------------
(* The listener under settings files that leave settings out *)

\* no "settings" mapping, an empty one, every default spelled out, and a
\* mapping with nothing but eager replacement on or unicode input off
SettingsFiles ==
    { SettingsFile(FALSE, <<>>),
      SettingsFile(TRUE, <<>>),
      ShippedSettings,
      SettingsFile(TRUE, SETTING_UNICODE_EAGER :> TRUE),
      SettingsFile(TRUE, SETTING_UNICODE_ENABLED :> FALSE) }

\* the leader and the ender on_modified reads (lines 181-182)
leader == get(section(settings), SETTING_UNICODE_LEADER, <<"\\">>)
ender == get(section(settings), SETTING_UNICODE_ENDER, <<"\t">>)

\* the handlers read enabled and eager from the settings file (lines 176-183)
InitSettings ==
    /\ settings \in SettingsFiles
    /\ enabled = get(section(settings), SETTING_UNICODE_ENABLED, TRUE)
    /\ eager = get(section(settings), SETTING_UNICODE_EAGER, FALSE)
    /\ abbreviations = DefaultAbbreviations
    /\ prefix_tree = build_prefix_tree(DefaultAbbreviations)
    /\ buf = <<>>
    /\ cursor = 0
    /\ pending_region = None
    /\ pending_abbreviation = <<>>
    /\ issued = <<>>
    /\ event = Ev("init", "", 0)
    /\ recursion_error = FALSE
    /\ load = Loaded([found |-> FALSE, json |-> <<>>], <<>>)
    /\ query = NoQuery
    /\ infoview = NoInfoview
    /\ lean = NoLean

NextSettings ==
    \/ \E c \in Keyboard : TypeChar(c)
    \/ Backspace
    \/ ForwardDelete
    \/ \E p \in 0..Len(buf) : MoveCursor(p)

SpecSettings == InitSettings /\ [][NextSettings]_vars

----------------------------------------------------------------------------
(* The listener with an abbreviations.json that holds a cursor placeholder *)

\* the token that marks the caret's place in a replacement of abbreviations.json
CursorPlaceholder == "$CURSOR"

\* an abbreviations.json with a bracket pair around the token and a plain arrow
PlaceholderAbbreviations ==
    (<<"d">> :> <<"U27E8", CursorPlaceholder, "U27E9">>) @@ (<<"u">> :> <<"U2191">>)

InitPlaceholder ==
    /\ abbreviations = PlaceholderAbbreviations
    /\ prefix_tree = build_prefix_tree(PlaceholderAbbreviations)
    /\ buf = <<>>
    /\ cursor = 0
    /\ pending_region = None
    /\ pending_abbreviation = <<>>
    /\ eager = FALSE
    /\ enabled = TRUE
    /\ issued = <<>>
    /\ event = Ev("init", "", 0)
    /\ recursion_error = FALSE
    /\ load = Loaded([found |-> TRUE, json |-> PlaceholderAbbreviations], <<>>)
    /\ query = NoQuery
    /\ settings = ShippedSettings
    /\ infoview = NoInfoview
    /\ lean = NoLean

SpecPlaceholder == InitPlaceholder /\ [][Next]_vars

----------------------------------------------------------------------------
(* Goal-state requests of the Lean plugin.  A view is known by its id, a
   position by its row and column; lean.call is the last call that asked
   for a goal state and lean.sent the requests that call handed to
   session.send_request, in the order it sent them. *)

\* the variables of the unicode input and of the single-view infoview
other_vars == <<unicode_vars, infoview>>

\* the state after construction with the Lean plugin in state l
InitWith(l) ==
    /\ abbreviations = DefaultAbbreviations
    /\ prefix_tree = build_prefix_tree(DefaultAbbreviations)
    /\ buf = <<>>
    /\ cursor = 0
    /\ pending_region = None
    /\ pending_abbreviation = <<>>
    /\ eager = FALSE
    /\ enabled = TRUE
    /\ issued = <<>>
    /\ event = Ev("init", "", 0)
    /\ recursion_error = FALSE
    /\ load = Loaded([found |-> FALSE, json |-> <<>>], <<>>)
    /\ query = NoQuery
    /\ settings = ShippedSettings
    /\ infoview = NoInfoview
    /\ lean = l

\* rows and columns of the positions that goal states are requested for
Rows == 0..(MaxPos - 1)
Cols == {0, 1}

\* Request(method, params)
Request(method, params) == [method |-> method, params |-> params]

\* params: the document of the view and the position
Params(view, row, col) == [uri |-> view, line |-> row, character |-> col]

\* request_goal_state without the check of view.is_dirty()
request_goal_state_unsaved(l, view, row, col) ==
    IF l.session = None
    THEN <<>>
    ELSE LET session == l.session[1]
             params == Params(view, row, col)
         IN  IF session.state # "READY" THEN <<>>
             ELSE IF ~l.file_name[view] THEN <<>>
             ELSE (IF get(session.settings, SETTING_DISPLAY_CURRENT_GOALS, FALSE)
                   THEN <<Request("$/lean/plainGoal", params)>> ELSE <<>>)
                  \o (IF get(session.settings, SETTING_DISPLAY_EXPECTED_TYPE, FALSE)
                      THEN <<Request("$/lean/plainTermGoal", params)>> ELSE <<>>)

\* Lean.request_goal_state(view, row, col): the requests it sends
request_goal_state(l, view, row, col) ==
    IF l.session = None
    THEN <<>>
    ELSE LET session == l.session[1]
             params == Params(view, row, col)
         IN  IF session.state # "READY" THEN <<>>
             ELSE IF l.dirty[view] THEN <<>>
             ELSE IF ~l.file_name[view] THEN <<>>
             ELSE (IF get(session.settings, SETTING_DISPLAY_CURRENT_GOALS, FALSE)
                   THEN <<Request("$/lean/plainGoal", params)>> ELSE <<>>)
                  \o (IF get(session.settings, SETTING_DISPLAY_EXPECTED_TYPE, FALSE)
                      THEN <<Request("$/lean/plainTermGoal", params)>> ELSE <<>>)

\* LeanInfoview.request_goal_state(session, view, row, col): the requests
\* it sends for the session its caller found
LeanInfoview_request_goal_state(l, session, view, row, col) ==
    LET params == Params(view, row, col)
    IN  IF session.state # "READY" THEN <<>>
        ELSE IF l.dirty[view] THEN <<>>
        ELSE IF ~l.file_name[view] THEN <<>>
        ELSE (IF get(session.settings, SETTING_DISPLAY_CURRENT_GOALS, FALSE)
              THEN <<Request("$/lean/plainGoal", params)>> ELSE <<>>)
             \o (IF get(session.settings, SETTING_DISPLAY_EXPECTED_TYPE, FALSE)
                 THEN <<Request("$/lean/plainTermGoal", params)>> ELSE <<>>)

\* what lean.call records of a call
Call(fn, view, row, col) == <<[fn |-> fn, view |-> view, row |-> row, col |-> col]>>

\* Lean.request_goal_state is called for a position of a view
LeanRequestGoalState(view, row, col) ==
    /\ lean' = [lean EXCEPT
                  !.call = Call("Lean.request_goal_state", view, row, col),
                  !.sent = request_goal_state(lean, view, row, col)]
    /\ UNCHANGED other_vars

\* LeanInfoviewCommand.run: the command looks for the session and the file
\* name and asks a new LeanInfoview for the goal state at the caret
LeanInfoviewCommand(view, row, col) ==
    /\ lean' = [lean EXCEPT
                  !.call = Call("LeanInfoview.request_goal_state", view, row, col),
                  !.sent = IF lean.session = None THEN <<>>
                           ELSE IF ~lean.file_name[view] THEN <<>>
                           ELSE LeanInfoview_request_goal_state(
                                    lean, lean.session[1], view, row, col)]
    /\ UNCHANGED other_vars

\* the user edits a view: view.is_dirty() becomes true
EditView(view) ==
    /\ ~lean.dirty[view]
    /\ lean' = [lean EXCEPT !.dirty[view] = TRUE]
    /\ UNCHANGED other_vars

\* the user saves a view: it is clean and has a file name
SaveView(view) ==
    /\ lean.dirty[view]
    /\ lean' = [lean EXCEPT !.dirty[view] = FALSE, !.file_name[view] = TRUE]
    /\ UNCHANGED other_vars

\* the language server is started for the window
SessionStarts ==
    /\ lean.session = None
    /\ lean' = [lean EXCEPT !.session =
                  Session("STARTING", DisplaySettings(TRUE, TRUE, FALSE))]
    /\ UNCHANGED other_vars

\* the session goes through its ClientStates
SessionChanges ==
    /\ lean.session # None
    /\ lean.session[1].state \in {"STARTING", "READY"}
    /\ lean' = [lean EXCEPT !.session =
                  Session(IF lean.session[1].state = "STARTING"
                          THEN "READY" ELSE "STOPPING",
                          lean.session[1].settings)]
    /\ UNCHANGED other_vars

\* the session has stopped and is gone from the window
SessionEnds ==
    /\ lean.session # None
    /\ lean.session[1].state = "STOPPING"
    /\ lean' = [lean EXCEPT !.session = None]
    /\ UNCHANGED other_vars

\* the user switches one of the display settings of the session
SetDisplaySetting(key) ==
    /\ lean.session # None
    /\ lean' = [lean EXCEPT !.session =
                  Session(lean.session[1].state,
                          put(lean.session[1].settings, key,
                              ~lean.session[1].settings[key]))]
    /\ UNCHANGED other_vars

\* a window whose views are saved files or new, unsaved buffers
InitRequest ==
    \E named \in [Views -> BOOLEAN] : InitWith([NoLean EXCEPT !.file_name = named])

NextRequest ==
    \/ \E view \in Views, row \in Rows, col \in Cols : LeanRequestGoalState(view, row, col)
    \/ \E view \in Views, row \in Rows, col \in Cols : LeanInfoviewCommand(view, row, col)
    \/ \E view \in Views : EditView(view)
    \/ \E view \in Views : SaveView(view)
    \/ SessionStarts
    \/ SessionChanges
    \/ SessionEnds
    \/ \E key \in {SETTING_DISPLAY_CURRENT_GOALS, SETTING_DISPLAY_EXPECTED_TYPE} :
         SetDisplaySetting(key)

SpecRequest == InitRequest /\ [][NextRequest]_vars

----------------------------------------------------------------------------
(* The debounce timer of the Lean plugin.  lean.timers holds every
   threading.Timer the plugin has started, in the order of their creation:
   the session view whose selection change started it and whether it is
   started (waiting for its 0.1 s), cancelled or finished;
   lean.pending_timeout is self._pending_timeout, the index of the last
   one, or None while the attribute does not exist. *)

\* the names that the lambda of line 145 can resolve: the parameters of
\* on_selection_modified_async (its closure); plugin.py defines no
\* module-level name "view", and neither do the builtins
LambdaNames == {"self", "session_view"}

\* threading.Timer(0.1, function) after start()
Timer(session_view) == [state |-> "started", session_view |-> session_view, raised |-> None]

\* Timer.cancel(): a timer that still waits will never call its function
cancel(timer) ==
    IF timer.state = "started" THEN [timer EXCEPT !.state = "cancelled"] ELSE timer

\* Lean.on_selection_modified_async(session_view)
on_selection_modified_async(l, session_view) ==
    LET cancelled ==
            IF l.pending_timeout # None
            THEN [l.timers EXCEPT ![l.pending_timeout[1]] = cancel(@)]
            ELSE l.timers
    IN  [l EXCEPT !.timers = Append(cancelled, Timer(session_view)),
                  !.pending_timeout = <<Len(l.timers) + 1>>]

\* the selection of a view changes
SelectionModified(session_view) ==
    /\ Len(lean.timers) < MaxTimers
    /\ lean' = on_selection_modified_async(lean, session_view)
    /\ UNCHANGED other_vars

\* the 0.1 s of a started timer are over: Timer.run calls the lambda, which
\* evaluates the name "view" to call self._do_request(view).  The name does
\* not resolve, so the call raises NameError in the timer's thread:
\* _do_request and request_goal_state are not reached
TimerFires(i) ==
    /\ lean.timers[i].state = "started"
    /\ "view" \notin LambdaNames
    /\ lean' = [lean EXCEPT !.timers[i].state = "finished",
                            !.timers[i].raised = <<"NameError">>]
    /\ UNCHANGED other_vars

\* a ready session with the default display settings
ReadyLean == [NoLean EXCEPT !.session = Session("READY", DisplaySettings(TRUE, TRUE, FALSE))]

InitDebounce == InitWith(ReadyLean)

NextDebounce ==
    \/ \E session_view \in Views : SelectionModified(session_view)
    \/ \E i \in 1..Len(lean.timers) : TimerFires(i)

SpecDebounce == InitDebounce /\ [][NextDebounce]_vars

----------------------------------------------------------------------------
(* The responses of the server as the Lean plugin stores them for several
   views.  lean.goal_data and lean.term_goal_data are self._goal_data and
   self._term_goal_data by view id (None: no entry, also while the
   attribute does not exist); lean.inflight holds the requests in flight,
   by method and view; lean.displayed is the display update the last handler
   made, None when it made none.  A response is an error or a result that
   holds a goal (an expected type) or none. *)

\* Response: a dict with the key 'error', or a result
Response(error, filled) == [error |-> error, filled |-> filled]

\* the responses of the server: an error, a result that holds a goal (an
\* expected type) and a result that holds none
Responses == {Response(TRUE, FALSE), Response(FALSE, TRUE), Response(FALSE, FALSE)}

\* what the handlers know of a stored response
Stored(response) == <<[filled |-> response.filled]>>

\* the display update of _display_combined_info(view)
Display(l, view) ==
    <<[view |-> view,
       shown |-> display_combined_info(l.goal_data[view], l.term_goal_data[view])]>>

\* on_goal_response that stores the response before it looks for an error
on_goal_response_store_first(l, view, response) ==
    LET stored == [l EXCEPT !.goal_data[view] = Stored(response)]
    IN  IF response.error
        THEN [stored EXCEPT !.displayed = None]
        ELSE [stored EXCEPT !.displayed = Display(stored, view)]

\* Lean.on_goal_response(view, response)
on_goal_response(l, view, response) ==
    IF response.error
    THEN [l EXCEPT !.displayed = None]
    ELSE LET stored == [l EXCEPT !.goal_data[view] = Stored(response)]
         IN  [stored EXCEPT !.displayed = Display(stored, view)]

\* Lean.on_term_goal_response(view, response)
on_term_goal_response(l, view, response) ==
    IF response.error
    THEN [l EXCEPT !.displayed = None]
    ELSE LET stored == [l EXCEPT !.term_goal_data[view] = Stored(response)]
         IN  [stored EXCEPT !.displayed = Display(stored, view)]

\* what lean.call records of a handler call
Handled(fn, view, response) == <<[fn |-> fn, view |-> view, response |-> response]>>

\* a request in flight: its method and the view its callback was made for
InFlight(method, view) == [method |-> method, view |-> view]

\* request_goal_state(view, row, col) sent both requests for a view
GoalStateRequested(view) ==
    /\ lean' = [lean EXCEPT !.inflight = @ \cup {InFlight("$/lean/plainGoal", view),
                                                 InFlight("$/lean/plainTermGoal", view)}]
    /\ UNCHANGED other_vars

\* the server answers a plainGoal request: its callback calls
\* on_goal_response(view, response)
LeanGoalResponse(view, response) ==
    /\ InFlight("$/lean/plainGoal", view) \in lean.inflight
    /\ lean' = [on_goal_response(lean, view, response) EXCEPT
                  !.inflight = @ \ {InFlight("$/lean/plainGoal", view)},
                  !.call = Handled("Lean.on_goal_response", view, response)]
    /\ UNCHANGED other_vars

\* the server answers a plainTermGoal request: its callback calls
\* on_term_goal_response(view, response)
LeanTermGoalResponse(view, response) ==
    /\ InFlight("$/lean/plainTermGoal", view) \in lean.inflight
    /\ lean' = [on_term_goal_response(lean, view, response) EXCEPT
                  !.inflight = @ \ {InFlight("$/lean/plainTermGoal", view)},
                  !.call = Handled("Lean.on_term_goal_response", view, response)]
    /\ UNCHANGED other_vars

InitResponses == InitWith(ReadyLean)

NextResponses ==
    \/ \E view \in Views : GoalStateRequested(view)
    \/ \E view \in Views, response \in Responses : LeanGoalResponse(view, response)
    \/ \E view \in Views, response \in Responses : LeanTermGoalResponse(view, response)

SpecResponses == InitResponses /\ [][NextResponses]_vars

----------------------------------------------------------------------------
(* The infoview commands of a window.  lean.panel is the output panel
   "lean_infoview" of the window: whether find_output_panel finds it and
   whether it is the panel the window shows; lean.popup is
   mdpopups.is_popup_visible of the active view, view 1; lean.toggles counts
   the runs of toggle_lean_infoview_cursor. *)

\* window.run_command("show_panel", {"panel": "output.lean_infoview"})
show_panel(panel) == [panel EXCEPT !.visible = panel.exists]

\* window.run_command("hide_panel", {"panel": "output.lean_infoview"})
hide_panel(panel) == [panel EXCEPT !.visible = FALSE]

\* window.create_output_panel("lean_infoview")
create_output_panel(panel) == [panel EXCEPT !.exists = TRUE]

\* window.find_output_panel("lean_infoview"): the panel, shown or hidden,
\* once it was created
find_output_panel(panel) == panel.exists

\* ToggleLeanInfoviewCursorCommand.run for the caret of the active view
ToggleLeanInfoviewCursorCommand(l, view, row, col) ==
    IF l.session = None
    THEN l
    ELSE LET session == l.session[1]
         IN  IF ~get(session.settings, SETTING_DISPLAY_MDPOPUP, FALSE)
             THEN IF ~find_output_panel(l.panel)
                  THEN [l EXCEPT !.panel = show_panel(create_output_panel(l.panel))]
                  ELSE [l EXCEPT !.panel = hide_panel(l.panel)]
             ELSE IF ~l.popup
                  THEN [l EXCEPT
                          !.call = Call("LeanInfoview.request_goal_state", view, row, col),
                          !.sent = LeanInfoview_request_goal_state(l, session, view, row, col)]
                  ELSE [l EXCEPT !.popup = FALSE]

\* the user runs toggle_lean_infoview_cursor
Toggle(row, col) ==
    /\ lean.toggles < MaxToggles
    /\ lean' = [ToggleLeanInfoviewCursorCommand(lean, 1, row, col) EXCEPT
                  !.toggles = lean.toggles + 1]
    /\ UNCHANGED other_vars

\* ShowLeanInfoviewCommand.run with display_mdpopup off: the panel is
\* created if the window has none, and shown
ShowLeanInfoview ==
    /\ lean.session # None
    /\ ~get(lean.session[1].settings, SETTING_DISPLAY_MDPOPUP, FALSE)
    /\ lean' = [lean EXCEPT !.panel =
                  show_panel(IF find_output_panel(lean.panel)
                             THEN lean.panel ELSE create_output_panel(lean.panel))]
    /\ UNCHANGED other_vars

\* HideLeanInfoviewCommand.run: the panel or the popup is hidden
HideLeanInfoview ==
    /\ lean.session # None
    /\ lean' = IF ~get(lean.session[1].settings, SETTING_DISPLAY_MDPOPUP, FALSE)
               THEN [lean EXCEPT !.panel = hide_panel(lean.panel)]
               ELSE [lean EXCEPT !.popup = FALSE]
    /\ UNCHANGED other_vars

\* a response to the requests of the popup mode is displayed: the popup of
\* the active view becomes visible
PopupShown ==
    /\ lean.session # None
    /\ get(lean.session[1].settings, SETTING_DISPLAY_MDPOPUP, FALSE)
    /\ lean.sent # <<>>
    /\ ~lean.popup
    /\ lean' = [lean EXCEPT !.popup = TRUE, !.sent = <<>>]
    /\ UNCHANGED other_vars

InitToggle == InitWith(NoLean)

NextToggle ==
    \/ \E row \in Rows, col \in Cols : Toggle(row, col)
    \/ ShowLeanInfoview
    \/ HideLeanInfoview
    \/ PopupShown
    \/ SessionStarts
    \/ SessionChanges
    \/ SessionEnds
    \/ SetDisplaySetting(SETTING_DISPLAY_MDPOPUP)

SpecToggle == InitToggle /\ [][NextToggle]_vars

----------------------------------------------------------------------------
(* Vocabulary of the properties *)

Tracking == pending_region # None
Idle == pending_region = None

Keys == DOMAIN abbreviations

\* s is a key and a proper prefix of another key
Extendable(s) == s \in Keys /\ \E k \in Keys : k # s /\ startswith(k, s)

\* strict completeness: a key that no other key extends
StrictComplete(s) == s \in Keys /\ ~Extendable(s)

\* the last event was a modification of the buffer
Modification(ev) == ev.kind \in {"type", "backspace", "delete"}

\* the buffer once the character ch is typed at the caret, before any handler
Typed(ch) == SubSeq(buf, 1, cursor) \o <<ch>> \o SubSeq(buf, cursor + 1, Len(buf))

\* the text between the tracked leader and the caret once ch is typed
TextAfter(ch) == substr(Typed(ch), begin(pending_region) + Len(Leader), cursor + 1)

\* a character arrives at a caret that lies in the tracked span
TypedInSpan ==
    /\ enabled
    /\ Tracking
    /\ contains(pending_region, cursor)
    /\ event'.kind = "type"

----------------------------------------------------------------------------
(* C1: whenever the listener issues a replacement, the region it replaces
   holds exactly the leader followed by the tracked text t, and the
   replacement is entries[t]. *)
C1_CommitReplacesTrackedSpan ==
    \A i \in 1..Len(issued) :
        /\ issued[i].abbr \in Keys
        /\ issued[i].replacement = abbreviations[issued[i].abbr]
        /\ issued[i].content = Leader \o issued[i].abbr

(* C2: while Tracking the tracked text is empty or in the prefix set, and an
   insertion in the span whose text is no prefix leaves the session Idle by
   the end of that event. *)
C2_TrackedTextIsPrefix ==
    /\ [](Tracking => (pending_abbreviation = <<>> \/ pending_abbreviation \in prefix_tree))
    /\ [][\A ch \in Keyboard :
            (TypedInSpan /\ event'.ch = ch /\ TextAfter(ch) \notin prefix_tree)
                => Idle']_vars

\* a span is tracked whose text is a proper prefix of a key and no key
C2_Witness ==
    /\ Tracking
    /\ pending_abbreviation \in prefix_tree
    /\ event.kind = "type"
    /\ event.abbr = <<"u">>
    /\ pending_abbreviation = <<"u", "d">>

(* C3: while Tracking, a selection change to a position outside the span
   commits the replacement of the tracked text when that text is a key
   (also when a longer key extends it) and otherwise replaces nothing; the
   session is Idle afterwards. *)
C3_EscapeCommitsOrDiscards ==
    [][(Tracking /\ event'.kind = "move" /\ ~contains(pending_region, event'.pos))
        => /\ Idle'
           /\ IF pending_abbreviation \in Keys
              THEN /\ issued' # <<>>
                   /\ issued'[1].replacement = abbreviations[pending_abbreviation]
                   /\ issued'[1].region_begin = begin(pending_region)
                   /\ issued'[1].region_end = end(pending_region)
              ELSE issued' = <<>> /\ buf' = buf]_vars

\* "\u" was typed after a "d", the caret left the span, and U+2191 took the
\* place of "\u" although the key "ud" extends "u"
C3_Witness ==
    /\ event.kind = "move"
    /\ event.abbr = <<"u">>
    /\ Extendable(event.abbr)
    /\ Len(issued) = 1
    /\ issued[1].content = <<"\\", "u">>
    /\ issued[1].replacement = <<"U2191">>
    /\ buf = <<"d", "U2191">>
    /\ Idle

(* C4: while Tracking, typing the ender after a tracked text that is a key
   commits that key's replacement over the span with the ender included, and
   the session is Idle; no ender is left in the buffer. *)
C4_EnderCommitsKey ==
    [][(/\ TypedInSpan
        /\ cursor = end(pending_region)
        /\ event'.ch = Ender[1]
        /\ pending_abbreviation \in Keys
        /\ substr(buf, begin(pending_region), cursor) = Leader \o pending_abbreviation)
        => /\ Idle'
           /\ Len(issued') = 1
           /\ issued'[1].replacement = abbreviations[pending_abbreviation]
           /\ issued'[1].content = Leader \o pending_abbreviation \o Ender
           /\ buf' = SubSeq(buf, 1, begin(pending_region))
                         \o abbreviations[pending_abbreviation]
                         \o SubSeq(buf, cursor + 1, Len(buf))]_vars

(* C5: with eager on, an insertion that makes the tracked text strict-complete
   commits that text's replacement in the same event and leaves the session
   Idle, and no modification event issues more than one replacement. *)
C5_EagerCommitsOnce ==
    [][/\ Modification(event') => Len(issued') <= 1
       /\ \A ch \in Keyboard :
            (TypedInSpan /\ eager /\ event'.ch = ch /\ StrictComplete(TextAfter(ch)))
                => /\ Idle'
                   /\ Len(issued') = 1
                   /\ issued'[1].replacement = abbreviations[TextAfter(ch)]
                   /\ issued'[1].region_begin = begin(pending_region)
                   /\ issued'[1].region_end = cursor + 1]_vars

\* with eager on, the "d" typed after the leader was replaced at once
C5_Witness ==
    /\ eager
    /\ event.kind = "type"
    /\ event.ch = "d"
    /\ event.region = <<0, 1>>
    /\ Len(issued) = 1
    /\ issued[1].content = <<"\\", "d">>
    /\ issued[1].replacement = <<"U2193">>
    /\ buf = <<"U2193">>
    /\ Idle

(* C6: with eager on, no keystroke commits a tracked text that is a key and
   a proper prefix of a longer key. *)
C6_NoEagerCommitOfExtendableKey ==
    (eager /\ event.kind = "type")
        => \A i \in 1..Len(issued) : ~Extendable(issued[i].abbr)

(* C7, as claimed: with eager on, a character that makes the tracked text a
   non-prefix commits the replacement of the text before it when that text
   was strict-complete. *)
C7_EagerSalvagesPrevious ==
    [][\A ch \in Keyboard :
        (/\ TypedInSpan /\ eager /\ event'.ch = ch
         /\ TextAfter(ch) \notin prefix_tree
         /\ StrictComplete(pending_abbreviation))
            => /\ issued' # <<>>
               /\ issued'[1].replacement = abbreviations[pending_abbreviation]
               /\ Idle']_vars

(* C7, amended: with eager on, a character that makes the tracked text a
   non-prefix discards the span and issues no replacement, whatever the text
   before it was; the buffer keeps what was typed. *)
C7_EagerDiscardsWithoutCommit ==
    [][\A ch \in Keyboard :
        (TypedInSpan /\ eager /\ event'.ch = ch /\ TextAfter(ch) \notin prefix_tree)
            => /\ Idle'
               /\ issued' = <<>>
               /\ buf' = Typed(ch)]_vars

\* with eager on, the ender typed after the tracked strict-complete "d" left
\* "\d" and the ender in the buffer
C7_Witness ==
    /\ eager
    /\ event.kind = "type"
    /\ event.ch = "\t"
    /\ event.region = <<0, 2>>
    /\ event.abbr = <<"d">>
    /\ StrictComplete(event.abbr)
    /\ buf = <<"\\", "d", "\t">>
    /\ issued = <<>>
    /\ Idle

(* C8: typing a second leader while Tracking issues no replacement for the
   first span and starts tracking a new span at the second leader. *)
C8_SecondLeaderRestarts ==
    [][(TypedInSpan /\ event'.ch = Leader[1])
        => /\ issued' = <<>>
           /\ pending_region' = Region(cursor + 1 - Len(Leader), cursor + 1)
           /\ pending_abbreviation' = <<>>]_vars

(* C9: from Idle, an insertion that leaves the leader just before the caret
   starts tracking a span that covers that leader, with empty text; any other
   insertion leaves the session Idle. *)
C9_LeaderStartsTracking ==
    [][(enabled /\ Idle /\ event'.kind = "type")
        => /\ issued' = <<>>
           /\ buf' = Typed(event'.ch)
           /\ IF cursor' >= Len(Leader)
                 /\ substr(buf', cursor' - Len(Leader), cursor') = Leader
              THEN /\ pending_region' = Region(cursor' - Len(Leader), cursor')
                   /\ pending_abbreviation' = <<>>
              ELSE Idle']_vars

\* the leader typed after a "d" in an Idle session started a span over it
C9_Witness ==
    /\ event.kind = "type"
    /\ event.ch = "\\"
    /\ event.region = None
    /\ buf = <<"d", "\\">>
    /\ pending_region = <<1, 2>>
    /\ pending_abbreviation = <<>>

(* C10: with eager off, a character that makes the tracked text a non-prefix
   discards the span: the session is Idle, nothing is replaced, the buffer is
   what the user typed; and only an event that meets a tracked span replaces
   anything. *)
C10_NonPrefixDiscards ==
    [][/\ issued' # <<>> => Tracking
       /\ \A ch \in Keyboard :
            (TypedInSpan /\ ~eager /\ event'.ch = ch /\ TextAfter(ch) \notin prefix_tree)
                => /\ Idle'
                   /\ pending_abbreviation' = <<>>
                   /\ issued' = <<>>
                   /\ buf' = Typed(ch)]_vars

\* with eager off, the ender typed after the tracked "u" left the buffer as typed
C10_Witness ==
    /\ ~eager
    /\ event.kind = "type"
    /\ event.ch = "\t"
    /\ event.region = <<0, 2>>
    /\ event.abbr = <<"u">>
    /\ buf = <<"\\", "u", "\t">>
    /\ issued = <<>>
    /\ Idle

(* C11: after a commit whose replacement does not end with the leader the
   session is Idle, and the next keystroke of a character other than the
   leader replaces nothing and starts no span. *)
C11_IdleAfterCommit ==
    /\ [](issued # <<>> => Idle)
    /\ [][(/\ enabled
           /\ issued # <<>>
           /\ \A i \in 1..Len(issued) :
                ~startswith(issued[i].replacement,
                            SubSeq(issued[i].replacement,
                                   1, Len(issued[i].replacement) - Len(Leader)) \o Leader)
           /\ event'.kind = "type"
           /\ event'.ch # Leader[1])
           => /\ issued' = <<>>
              /\ Idle'
              /\ pending_abbreviation' = <<>>
              /\ buf' = Typed(event'.ch)]_vars

\* "\d" was replaced by U+2193 and the "u" typed next was left alone
C11_Witness ==
    /\ event.kind = "type"
    /\ event.ch = "u"
    /\ event.region = None
    /\ buf = <<"U2193", "u">>
    /\ cursor = 2
    /\ issued = <<>>
    /\ Idle

(* C12: a commit is atomic for the tracker: the modification it delivers to
   on_modified issues no further replacement, so an event issues at most one
   replacement, and the session is Idle once a replacement was issued. *)
C12_CommitIsAtomic ==
    /\ Len(issued) <= 1
    /\ issued # <<>> => Idle

(* C13: every replacement issued carries entries[t] for the key t that was
   looked up, and an escape from a span whose text has no entry replaces
   nothing and raises no error. *)
C13_CommitOnlyForKeys ==
    /\ \A i \in 1..Len(issued) :
         /\ issued[i].abbr \in Keys
         /\ issued[i].replacement = abbreviations[issued[i].abbr]
    /\ (/\ event.kind = "move"
        /\ event.region # None
        /\ ~contains(event.region, event.pos)
        /\ event.abbr \notin Keys)
        => issued = <<>> /\ Idle /\ ~recursion_error

\* the caret left a span that held the leader alone: nothing was replaced
C13_Witness ==
    /\ event.kind = "move"
    /\ event.region = <<0, 1>>
    /\ event.abbr = <<>>
    /\ event.abbr \notin Keys
    /\ event.pos = 2
    /\ buf = <<"\\", "d">>
    /\ issued = <<>>
    /\ Idle

(* C14: is_complete_abbreviation(s) is true exactly when s is a key and no
   other key has s as a proper prefix. *)
C14_StrictCompleteness ==
    query.fn = "is_complete_abbreviation"
        => (query.result <=> StrictComplete(query.text))

(* C15: the prefix set is exactly the set of non-empty prefixes of the
   keys: every non-empty prefix of a key, the key itself included, is in
   it and is_prefix answers true for it, and is_prefix answers false for a
   text that starts no key. *)
C15_PrefixSetSound ==
    /\ \A k \in Keys : \A i \in 1..Len(k) : SubSeq(k, 1, i) \in prefix_tree
    /\ \A p \in prefix_tree : p # <<>> /\ \E k \in Keys : startswith(k, p)
    /\ query.fn = "is_prefix"
         => (query.result <=>
               query.text # <<>> /\ \E k \in Keys : startswith(k, query.text))

\* the key "dx" was asked about and is in the prefix set; "x" starts no key
C15_Witness ==
    /\ Keys = {<<"d", "x">>}
    /\ query = Answer("is_prefix", <<"d", "x">>, TRUE)
    /\ <<"d">> \in prefix_tree
    /\ <<"x">> \notin prefix_tree

(* C16: get_shortest_match(s) returns the shortest non-empty prefix of s
   that is a key, and none exactly when no prefix of s is a key. *)
C16_ShortestMatch ==
    query.fn = "get_shortest_match"
        => LET hits == { n \in 1..Len(query.text) : SubSeq(query.text, 1, n) \in Keys }
           IN  IF hits = {}
               THEN query.result = None
               ELSE /\ query.result \in Keys
                    /\ query.result # <<>>
                    /\ startswith(query.text, query.result)
                    /\ \A n \in hits : Len(query.result) <= n

\* both "d" and "dd" are keys and prefixes of the text: the shorter is returned
C16_Witness ==
    /\ Keys = {<<"d">>, <<"d", "d">>}
    /\ query = Answer("get_shortest_match", <<"d", "d">>, <<"d">>)

(* C17: is_prefix("") is true for every table. *)
C17_EmptyTextIsPrefix ==
    (query.fn = "is_prefix" /\ query.text = <<>>) => query.result = TRUE

(* C18: the loaded table holds every key of the file's (or the default)
   table and of the custom translations, with the custom replacement for a
   key they have and the file's for the others, and every prefix of a custom
   key is in the prefix set. *)
C18_CustomOverridesDefaults ==
    LET loaded == IF load.file.found THEN load.file.json ELSE DefaultAbbreviations
    IN  load.pc = "done"
        => /\ Keys = DOMAIN loaded \cup DOMAIN load.custom
           /\ \A k \in DOMAIN load.custom : abbreviations[k] = load.custom[k]
           /\ \A k \in DOMAIN loaded \ DOMAIN load.custom : abbreviations[k] = loaded[k]
           /\ \A k \in DOMAIN load.custom :
                \A i \in 1..Len(k) : SubSeq(k, 1, i) \in prefix_tree

\* "d" is in the file and in the custom translations, "dx" only in the file
C18_Witness ==
    /\ load.file.found
    /\ DOMAIN load.file.json = {<<"d">>, <<"d", "x">>}
    /\ load.custom = (<<"d">> :> <<"U2191">>)
    /\ load.file.json[<<"d">>] = <<"U2193">>
    /\ query = Answer("get_replacement", <<"d">>, <<"U2191">>)
    /\ abbreviations[<<"d", "x">>] = <<"U2193">>

(* C19: after a commit the caret is where the cursor-placeholder token of
   the replacement stood and the token is not in the buffer; when the
   replacement holds no token the caret is at the end of the inserted text. *)
C19_CursorPlaceholder ==
    (Len(issued) = 1 /\ event.kind \in {"type", "move"})
        => LET replacement == issued[1].replacement
               tokens == { i \in 1..Len(replacement) : replacement[i] = CursorPlaceholder }
           IN  IF tokens # {}
               THEN /\ \A i \in 1..Len(buf) : buf[i] # CursorPlaceholder
                    /\ \A i \in tokens :
                         (\A j \in tokens : i <= j) => cursor = issued[1].region_begin + i - 1
               ELSE cursor = issued[1].region_begin + Len(replacement)

(* C20: a matcher call made while load_abbreviations runs never meets a
   prefix set that is not the prefix set of the entries it meets. *)
C20_ReloadIsAtomic ==
    query.fn # "none"
        => /\ \A k \in Keys : \A i \in 1..Len(k) : SubSeq(k, 1, i) \in prefix_tree
           /\ \A p \in prefix_tree : \E k \in Keys : startswith(k, p)

(* C21: with a setting absent the handlers read its default: enabled on,
   eager off, leader backslash, ender tab; with all of them absent no
   handler fails, typing the backslash while Idle starts a span, and no
   typed character other than the ender issues a replacement. *)
C21_DefaultsWhenAbsent ==
    /\ ~recursion_error
    /\ SETTING_UNICODE_ENABLED \notin DOMAIN section(settings) => enabled = TRUE
    /\ SETTING_UNICODE_EAGER \notin DOMAIN section(settings) => eager = FALSE
    /\ SETTING_UNICODE_LEADER \notin DOMAIN section(settings) => leader = Leader
    /\ SETTING_UNICODE_ENDER \notin DOMAIN section(settings) => ender = Ender
    /\ DOMAIN section(settings) = {}
         => /\ (event.kind = "type" /\ event.ch = "\\" /\ event.region = None)
                 => pending_region = Region(cursor - 1, cursor)
            /\ (event.kind = "type" /\ event.ch # "\t") => issued = <<>>

\* no "settings" mapping at all: "\d" typed after "d" was tracked and was
\* replaced when the caret left it
C21_Witness ==
    /\ ~settings.present
    /\ event.kind = "move"
    /\ event.region = <<1, 3>>
    /\ event.abbr = <<"d">>
    /\ Len(issued) = 1
    /\ buf = <<"d", "U2193">>

\* the offset of the nearest leader before the caret, -1 when there is none
NearestLeader ==
    LET leaders == { i \in 0..(cursor - 1) : buf[i + 1] = Leader[1] }
    IN  IF leaders = {} THEN -1 ELSE CHOOSE i \in leaders : \A j \in leaders : j <= i

\* the lengths of the keys that start the text between that leader and the caret
KeyLengths ==
    { n \in 1..(cursor - NearestLeader - 1) :
        SubSeq(buf, NearestLeader + 2, NearestLeader + 1 + n) \in Keys }

(* C22: manual conversion replaces the nearest leader before the caret and
   the shortest key that starts the text typed after it with that key's
   replacement, and leaves the rest of the buffer as it was; when there is
   no leader or no key starts the text the buffer is unchanged. *)
C22_ConvertReplacesShortestKey ==
    [][(enabled /\ event'.kind = "convert")
        => IF NearestLeader = -1 \/ KeyLengths = {}
           THEN buf' = buf
           ELSE \E n \in KeyLengths :
                  /\ \A m \in KeyLengths : n <= m
                  /\ buf' = SubSeq(buf, 1, NearestLeader)
                              \o abbreviations[SubSeq(buf, NearestLeader + 2, NearestLeader + 1 + n)]
                              \o SubSeq(buf, NearestLeader + 2 + n, Len(buf))]_vars

(* C23: when manual conversion replaces the abbreviation that the listener
   is tracking, the listener is Idle once the event is over. *)
C23_IdleAfterConvert ==
    [][(/\ enabled
        /\ event'.kind = "convert"
        /\ Tracking
        /\ begin(pending_region) = NearestLeader
        /\ end(pending_region) = cursor
        /\ pending_abbreviation = substr(buf, NearestLeader + 1, cursor)
        /\ KeyLengths # {})
        => Idle']_vars

(* C24: in every Tracking state the buffer holds the leader at the start
   of the span and the tracked text is the buffer from after the leader to
   the end of the span. *)
C24_SpanMirrorsBuffer ==
    Tracking
        => /\ substr(buf, begin(pending_region), begin(pending_region) + Len(Leader)) = Leader
           /\ end(pending_region) <= Len(buf)
           /\ pending_abbreviation
                = substr(buf, begin(pending_region) + Len(Leader), end(pending_region))

(* C25: while Tracking, a backspace inside the tracked text that leaves a
   prefix of a key, or nothing, after the leader keeps the session Tracking
   with that shortened text. *)
C25_BackspaceKeepsTracking ==
    [][(/\ enabled
        /\ Tracking
        /\ event'.kind = "backspace"
        /\ substr(buf, begin(pending_region), cursor) = Leader \o pending_abbreviation
        /\ end(pending_region) = cursor
        /\ pending_abbreviation # <<>>
        /\ LET shortened == SubSeq(pending_abbreviation, 1, Len(pending_abbreviation) - 1)
           IN  shortened = <<>> \/ \E k \in Keys : startswith(k, shortened))
        => /\ Tracking'
           /\ begin(pending_region') = begin(pending_region)
           /\ pending_abbreviation'
                = SubSeq(pending_abbreviation, 1, Len(pending_abbreviation) - 1)]_vars

(* C26: a modification that only deletes text leaves an Idle session Idle. *)
C26_DeletionStartsNoSpan ==
    [][(Idle /\ event'.kind \in {"backspace", "delete"}) => Idle']_vars

(* C27: while unicode_input_enabled is false no event issues a replacement. *)
C27_DisabledIssuesNothing ==
    ~enabled => issued = <<>>

(* C28: a selection change that puts the caret in the tracked region, its
   two ends included, leaves the span and the tracked text as they were and
   issues no replacement; a selection change while Idle changes nothing. *)
C28_MoveInsideSpanKeepsIt ==
    [][(/\ event'.kind = "move"
        /\ Idle \/ (begin(pending_region) <= event'.pos /\ event'.pos <= end(pending_region)))
        => /\ UNCHANGED <<pending_region, pending_abbreviation, buf>>
           /\ issued' = <<>>
           /\ cursor' = event'.pos]_vars

\* the caret was put right before the leader of the tracked "\d"
C28_Witness ==
    /\ event.kind = "move"
    /\ event.region = <<1, 3>>
    /\ event.pos = 1
    /\ pending_region = <<1, 3>>
    /\ pending_abbreviation = <<"d">>
    /\ buf = <<"d", "\\", "d">>
    /\ issued = <<>>

\* the leaders manual conversion may use: on the caret's line and among
\* the 20 characters before the caret
WindowLeaders ==
    { i \in 0..(cursor - 1) :
        /\ buf[i + 1] = Leader[1]
        /\ cursor - i <= 20
        /\ \A j \in (i + 1)..cursor : buf[j] # "\n" }

(* C29: manual conversion uses the leader nearest to the caret among those
   on the caret's line within the 20 characters before the caret, and
   leaves the buffer unchanged when there is none. *)
C29_ConvertLooksBackTwenty ==
    [][(enabled /\ event'.kind = "convert")
        => IF WindowLeaders = {}
           THEN buf' = buf
           ELSE \E i \in WindowLeaders :
                  /\ \A j \in WindowLeaders : j <= i
                  /\ LET text == substr(buf, i + 1, cursor)
                         lengths == { n \in 1..Len(text) : SubSeq(text, 1, n) \in Keys }
                     IN  IF lengths = {}
                         THEN buf' = buf
                         ELSE \E n \in lengths :
                                /\ \A m \in lengths : n <= m
                                /\ buf' = SubSeq(buf, 1, i)
                                            \o abbreviations[SubSeq(text, 1, n)]
                                            \o SubSeq(buf, i + 2 + n, Len(buf))]_vars

\* the leader stands 21 characters before the caret: nothing was converted
C29_Witness ==
    /\ event.kind = "convert"
    /\ event.pos = 21
    /\ cursor = 21
    /\ buf = Leader \o Fill(20)
    /\ issued = <<>>

(* C30: a goal state and an expected type that are displayed together
   were requested for the same position. *)
C30_DisplayFromOnePosition ==
    \A i \in 1..Len(infoview.shown) :
        (/\ infoview.shown[i].goal # None
         /\ infoview.shown[i].term # None
         /\ infoview.shown[i].goal[1].filled
         /\ infoview.shown[i].term[1].filled)
            => infoview.shown[i].goal[1].pos = infoview.shown[i].term[1].pos

(* C32: a call of request_goal_state (of the plugin or of the infoview)
   sends nothing when the session is not READY, when the view has unsaved
   changes or when it has no file name; otherwise it sends plainGoal exactly
   when display_current_goals is on and plainTermGoal exactly when
   display_expected_type is on, each with the document and the position of
   the call. *)
C32_RequestGuards ==
    [][(/\ lean'.call # None
        /\ LET c == lean'.call[1]
           IN  \/ LeanRequestGoalState(c.view, c.row, c.col)
               \/ LeanInfoviewCommand(c.view, c.row, c.col))
       => LET c == lean'.call[1]
              ready == lean.session # None /\ lean.session[1].state = "READY"
              methods == {lean'.sent[i].method : i \in 1..Len(lean'.sent)}
          IN  IF ~ready \/ lean.dirty[c.view] \/ ~lean.file_name[c.view]
              THEN lean'.sent = <<>>
              ELSE /\ "$/lean/plainGoal" \in methods
                        <=> lean.session[1].settings[SETTING_DISPLAY_CURRENT_GOALS]
                   /\ "$/lean/plainTermGoal" \in methods
                        <=> lean.session[1].settings[SETTING_DISPLAY_EXPECTED_TYPE]
                   /\ methods \subseteq {"$/lean/plainGoal", "$/lean/plainTermGoal"}
                   /\ Len(lean'.sent) = Cardinality(methods)
                   /\ \A i \in 1..Len(lean'.sent) :
                        lean'.sent[i].params = Params(c.view, c.row, c.col)]_vars

\* with the expected type switched off, the goal state was asked for a saved
\* file of a ready session: the one request sent is plainGoal
C32_Witness ==
    /\ lean.call = Call("Lean.request_goal_state", 2, 1, 0)
    /\ lean.session = Session("READY", DisplaySettings(TRUE, FALSE, FALSE))
    /\ ~lean.dirty[2]
    /\ lean.file_name[2]
    /\ lean.sent = <<Request("$/lean/plainGoal", Params(2, 1, 0))>>

\* the timers that were started and neither cancelled nor finished
StartedTimers == {i \in 1..Len(lean.timers) : lean.timers[i].state = "started"}

(* C31: at most one timer of the plugin is started and not cancelled, and
   when the time of such a timer is over a goal state is requested for the
   view whose selection change started it. *)
C31_DebouncedRequest ==
    [][/\ Cardinality(StartedTimers') <= 1
       /\ \A i \in 1..Len(lean.timers) :
            (lean.timers[i].state = "started" /\ lean'.timers[i].state = "finished")
            => /\ lean'.call # None
               /\ lean'.call[1].fn = "Lean.request_goal_state"
               /\ lean'.call[1].view = lean.timers[i].session_view]_vars

(* C33: a goal or term-goal response that carries an error leaves the
   stored goal data and term-goal data of every view as they were and makes
   no display update; a response without an error replaces the stored entry
   of its kind for its view and leaves every other entry as it was. *)
C33_ResponseStored ==
    [][(/\ lean'.call # None
        /\ LET c == lean'.call[1]
           IN  \/ LeanGoalResponse(c.view, c.response)
               \/ LeanTermGoalResponse(c.view, c.response))
       => LET c == lean'.call[1]
              goal == c.fn = "Lean.on_goal_response"
          IN  IF c.response.error
              THEN /\ lean'.goal_data = lean.goal_data
                   /\ lean'.term_goal_data = lean.term_goal_data
                   /\ lean'.displayed = None
              ELSE /\ \A v \in Views :
                        /\ lean'.goal_data[v] =
                             IF goal /\ v = c.view
                             THEN <<[filled |-> c.response.filled]>>
                             ELSE lean.goal_data[v]
                        /\ lean'.term_goal_data[v] =
                             IF ~goal /\ v = c.view
                             THEN <<[filled |-> c.response.filled]>>
                             ELSE lean.term_goal_data[v]]_vars

\* view 1 holds a goal and an expected type; the plainGoal request of view
\* 2 was answered with an error, which left view 2 without stored goal data
\* and made no display update
C33_Witness ==
    /\ lean.call = Handled("Lean.on_goal_response", 2, Response(TRUE, FALSE))
    /\ lean.goal_data[1] = <<[filled |-> TRUE]>>
    /\ lean.term_goal_data[1] = <<[filled |-> TRUE]>>
    /\ lean.goal_data[2] = None
    /\ lean.displayed = None

(* C34: with a session and display_mdpopup off, a run of
   toggle_lean_infoview_cursor shows the infoview panel when it was hidden
   and hides it when it was shown. *)
C34_ToggleAlternates ==
    [][(/\ lean'.toggles = lean.toggles + 1
        /\ lean.session # None
        /\ ~lean.session[1].settings[SETTING_DISPLAY_MDPOPUP])
       => lean'.panel.visible = ~lean.panel.visible]_vars

====
